---------------------------- MODULE Spec2Model ----------------------------
(***************************************************************************)
(* Model of the optimized song finder of boxed/jnjmusic:                   *)
(* recognition/optimized_audio_processor.py (OptimizedAudioProcessor),     *)
(* the AudioSegment table of recognition/models.py and the part of the     *)
(* recognize_music command that drives one search and its cleanup.         *)
(* Times are integers in milliseconds, as in the code; a value stored in   *)
(* seconds (start_time, end_time) is kept as the millisecond count it was  *)
(* divided from, and the float product back to milliseconds carries the    *)
(* sign of its rounding error.                                             *)
(***************************************************************************)
EXTENDS Integers, Sequences, FiniteSets, TLC

(***************************************************************************)
(* Program constants                                                       *)
(***************************************************************************)
AUDIO_SEGMENT_LENGTH == 30
AUDIO_OVERLAP == 5
MsPerSecond == 1000
RecognitionTimeoutSeconds == 20
MaxDepth == 10
DefaultMaxSongs == 2

(***************************************************************************)
(* Bounds of the model                                                     *)
(***************************************************************************)
DurationStep == 10000
MaxDurationSteps == 12
MaxSongsBound == 5
NumSongs == 3
MaxRuns == 2
MaxPlannerDuration == 100000
MaxPlannerSeconds == 3
OptionStep == 15
OverlapStep == 5
MaxOptionSteps == 2
DeepSlack == 2

(***************************************************************************)
(* Values                                                                  *)
(***************************************************************************)
None == <<>>

Some(v) == <<v>>

Titles == <<"Song A", "Song B">>

ArtistLists == << <<"X">>, <<"Y">>, <<"X", "Y">> >>

\* the result dict of a recognizer, reduced to the two fields the finder reads
Song(i) ==
    [title |-> Titles[(i % Len(Titles)) + 1],
     artists |-> ArtistLists[((i \div Len(Titles)) % Len(ArtistLists)) + 1]]

Songs == {Song(i) : i \in 1..NumSongs}

SongA == [title |-> "Song A", artists |-> <<"X">>]

SongB == [title |-> "Song B", artists |-> <<"Y">>]

SongC == [title |-> "Song C", artists |-> <<"X">>]

SongD == [title |-> "Song D", artists |-> <<"Y">>]

SongE == [title |-> "Song E", artists |-> <<"X", "Y">>]

\* Python's repr of a list of plain strings: ['X', 'Y']
RECURSIVE ReprItems(_)
ReprItems(artists) ==
    IF artists = <<>> THEN ""
    ELSE "'" \o Head(artists) \o "'"
         \o (IF Len(artists) > 1 THEN ", " ELSE "")
         \o ReprItems(Tail(artists))

\* song_key = f"{result['title']}_{result['artists']}"
SongKey(result) == result.title \o "_" \o "[" \o ReprItems(result.artists) \o "]"

\* start_ms / 1000: the float is kept as the millisecond count it came from
\* (the division is injective on integers of this size)
MsToSec(ms) == [ms |-> ms, per |-> MsPerSecond]

\* sign of the rounding error of (ms / 1000) * 1000 in binary floating point:
\* exact for whole seconds, otherwise it may round either way
FloatErr(t) == IF t.ms % t.per = 0 THEN {0} ELSE {-1, 0, 1}

\* a < t * 1000 and a > t * 1000 for an integer a, a stored time t and the
\* rounding sign e of the product
IntLessSecTimes1000(a, t, e) == a < t.ms \/ (a = t.ms /\ e > 0)

IntGreaterSecTimes1000(a, t, e) == a > t.ms \/ (a = t.ms /\ e < 0)

Min(a, b) == IF a <= b THEN a ELSE b

EmptyMap == [k \in {} |-> <<>>]

MapPut(f, k, v) == [x \in (DOMAIN f) \cup {k} |-> IF x = k THEN v ELSE f[x]]

\* a deterministic fake recognizer: blocks of the recording where a song plays
SilentLayout == <<>>

TwoSongLayout ==
    << [song |-> SongA, start |-> 190000, end |-> 220000],
       [song |-> SongB, start |-> 400000, end |-> 430000] >>

FirstHalfLayout ==
    << [song |-> SongA, start |-> 100000, end |-> 110000],
       [song |-> SongA, start |-> 500000, end |-> 520000] >>

SameSongLayout == << [song |-> SongA, start |-> 0, end |-> 600000] >>

\* a different song under each strategic position, in each half, and in the
\* middle of the recording
ManySongLayout ==
    << [song |-> SongA, start |-> 200000, end |-> 230000],
       [song |-> SongB, start |-> 400000, end |-> 430000],
       [song |-> SongC, start |-> 80000, end |-> 100000],
       [song |-> SongD, start |-> 450000, end |-> 480000],
       [song |-> SongE, start |-> 300000, end |-> 330000] >>

Layouts ==
    {SilentLayout, TwoSongLayout, FirstHalfLayout, SameSongLayout, ManySongLayout}

ScenarioDuration == 600000

Durations == {k * DurationStep : k \in 1..MaxDurationSteps}

VARIABLES
    segment_length,       \* self.segment_length, milliseconds
    duration_ms,          \* len(audio) of the video's recording
    max_songs,            \* argument of process_video_optimized
    recognizer,           \* the recognizer and clip exporter the search runs against
    pc,                   \* position of the command in handle / process_video_optimized
    strategic_positions,  \* list of (position_ms, position_name)
    pos_idx,              \* index of the strategic loop
    results,              \* list of {'result', 'segment', 'position'}
    found_songs,          \* song_key -> (start_time, end_time)
    segment_counter,
    stack,                \* activation records of binary_search_for_song
    ret,                  \* (result, segment) returned by the last finished call
    segment,              \* the segment whose recognition is in flight
    segments,             \* rows of the AudioSegment table of this video
    alarm,                \* seconds of the pending SIGALRM, 0 when none is pending
    sigalrm_handler,      \* the handler installed for SIGALRM
    probes,               \* log of the probes of the current run
    run,                  \* number of the current search of this video
    first_results,        \* what the first search returned
    outcome,              \* how the recognition call of the last step ended
    answer,               \* the `result` that call left behind
    settings,             \* django.conf.settings, the two values the processor reads
    options,              \* --segment-length and --overlap of the command, seconds
    overlap               \* self.overlap, milliseconds

vars == <<segment_length, duration_ms, max_songs, recognizer, pc,
          strategic_positions, pos_idx, results, found_songs, segment_counter,
          stack, ret, segment, segments, alarm, sigalrm_handler, probes, run, first_results,
          outcome, answer, settings, options, overlap>>

config_vars == <<segment_length, duration_ms, max_songs, recognizer,
                 settings, options, overlap>>

(***************************************************************************)
(* Position Planner                                                        *)
(***************************************************************************)
\* the natural one-third and two-thirds points, without the max_start
\* adjustment
get_strategic_positions_Unadjusted(audio_duration_ms, W) ==
    << <<audio_duration_ms \div 3, "1/3">>,
       <<(audio_duration_ms * 2) \div 3, "2/3">> >>

\* a planner that also samples the middle of the recording
get_strategic_positions_Three(audio_duration_ms, W) ==
    << <<audio_duration_ms \div 3, "1/3">>,
       <<audio_duration_ms \div 2, "1/2">>,
       <<(audio_duration_ms * 2) \div 3, "2/3">> >>

get_strategic_positions(audio_duration_ms, W) ==
    LET one_third == audio_duration_ms \div 3
        two_thirds == (audio_duration_ms * 2) \div 3
        max_start == audio_duration_ms - W
    IN  << IF one_third <= max_start
              THEN <<one_third, "1/3">>
              ELSE <<max_start \div 2, "middle">>,
           IF two_thirds <= max_start
              THEN <<two_thirds, "2/3">>
              ELSE <<max_start, "end">> >>

\* the base case without the depth limit
IsBaseCaseNoDepth(start_ms, end_ms, depth, W) == end_ms - start_ms < W

\* binary_search_for_song, lines 81-91
IsBaseCase(start_ms, end_ms, depth, W) ==
    end_ms - start_ms < W \/ depth > MaxDepth

MidMs(start_ms, end_ms) == (start_ms + end_ms) \div 2

\* the probe at mid_ms whatever the end of the range
BisectSegmentStartUnclamped(start_ms, end_ms, W) == MidMs(start_ms, end_ms)

BisectSegmentStart(start_ms, end_ms, W) ==
    Min(MidMs(start_ms, end_ms), end_ms - W)

(***************************************************************************)
(* Clip extraction and the AudioSegment table                              *)
(***************************************************************************)
\* end_ms = min(start_ms + self.segment_length, duration_ms)
SegmentEnd(start_ms, W, d) == Min(start_ms + W, d)

\* the row AudioSegmentModel.objects.create builds; the ordinal index is part
\* of file_path
NewSegment(start_ms, index, W, d) ==
    [start_time |-> MsToSec(start_ms),
     end_time |-> MsToSec(SegmentEnd(start_ms, W, d)),
     index |-> index,
     processed |-> FALSE]

SameRow(r, s) == r.start_time = s.start_time /\ r.end_time = s.end_time

\* unique_together = [['video', 'start_time', 'end_time']]
ViolatesUnique(table, s) == \E r \in table : SameRow(r, s)

\* whether segment_audio.export can fail in this environment
ExportOutcomes == IF recognizer.kind = "any" THEN BOOLEAN ELSE {TRUE}

\* create_segment_at_position: None when the export or the insert raises
create_segment_at_position(start_ms, index, export_ok) ==
    LET s == NewSegment(start_ms, index, segment_length, duration_ms)
    IN  IF export_ok /\ ~ViolatesUnique(segments, s) THEN Some(s) ELSE None

\* a save that does not reach the table
MarkProcessedLost(table, s) == table

\* segment.processed = True; segment.save()
MarkProcessed(table, s) ==
    {IF SameRow(r, s) THEN [r EXCEPT !.processed = TRUE] ELSE r : r \in table}

StartMs(s) == s.start_time.ms

EndMs(s) == s.end_time.ms

(***************************************************************************)
(* Recognizer under the 20 second deadline                                 *)
(***************************************************************************)
BlockOverlaps(b, s) == b.start < EndMs(s) /\ StartMs(s) < b.end

RECURSIVE LayoutIdentify(_, _)
LayoutIdentify(blocks, s) ==
    IF blocks = <<>> THEN [kind |-> "none", song |-> None]
    ELSE IF BlockOverlaps(Head(blocks), s)
         THEN [kind |-> "song", song |-> Some(Head(blocks).song)]
         ELSE LayoutIdentify(Tail(blocks), s)

\* what one call of recognizer.identify under `with timeout(20)` can do:
\* return a match, return None, fail inside identify (logged there, None
\* returned), or run into the deadline
IdentifyOutcomes(s) ==
    IF recognizer.kind = "any"
    THEN {[kind |-> k, song |-> None] : k \in {"none", "error", "timeout"}}
         \cup {[kind |-> "song", song |-> Some(x)] : x \in Songs}
    ELSE {LayoutIdentify(recognizer.blocks, s)}

\* the handler that was installed when the search started (old_handler)
PreviousHandler == "SIG_DFL"

\* a timeout context without its finally clause
AlarmLeftPending(a) == a

\* finally: signal.alarm(0)   (lines 116-118 and 211-213)
AlarmAfterCall(a) == 0

\* a recognition call without the except TimeoutError clause
TimeoutUncaught(o) == FALSE

\* except TimeoutError as e: ... result = None   (lines 123-125 and 217-219)

TimeoutCaught(o) == o.kind = "timeout"

\* an identify without its own except clause
IdentifyCatchesNothing(o) == FALSE

\* except Exception as e: ... return None, inside both recognizers' identify
IdentifyCatches(o) == o.kind = "error"

\* the exceptions of the recognition call that leave process_video_optimized
Propagates(o) ==
    \/ o.kind = "timeout" /\ ~TimeoutCaught(o)
    \/ o.kind = "error" /\ ~IdentifyCatches(o)

\* the value of `result` after the try statement
ResultOf(o) == IF o.kind = "song" THEN o.song ELSE None

(***************************************************************************)
(* Dedup Tracker                                                           *)
(***************************************************************************)
NumFound(found) == Cardinality(DOMAIN found)

\* the goal test written with > for >=
GoalMetStrict(found, n) == NumFound(found) > n

\* len(found_songs) >= max_songs
GoalMet(found, n) == NumFound(found) >= n

\* the membership test left out, and the test inverted
IsNewSongAlways(found, result) == TRUE

IsNewSongInverted(found, result) == SongKey(result) \in DOMAIN found

\* song_key not in found_songs
IsNewSong(found, result) == SongKey(result) \notin DOMAIN found

\* the overlap test left out
IsOverlappingDuplicateNever(found, result, segment_start, W, e1, e2) == FALSE

\* lines 130-134: the song is known and this window overlaps the recorded one
IsOverlappingDuplicate(found, result, segment_start, W, e1, e2) ==
    /\ SongKey(result) \in DOMAIN found
    /\ LET prev_start == found[SongKey(result)][1]
           prev_end == found[SongKey(result)][2]
       IN  /\ IntLessSecTimes1000(segment_start, prev_end, e1)
           /\ IntGreaterSecTimes1000(segment_start + W, prev_start, e2)

OverlapErrs(found, result) ==
    IF SongKey(result) \in DOMAIN found
    THEN FloatErr(found[SongKey(result)][2]) \X FloatErr(found[SongKey(result)][1])
    ELSE {<<0, 0>>}

\* found_songs[song_key] = (segment.start_time, segment.end_time)
Record(found, result, s) ==
    MapPut(found, SongKey(result), <<s.start_time, s.end_time>>)

ResultEntry(result, s, position) ==
    [result |-> result,
     segment |-> [start_time |-> s.start_time, end_time |-> s.end_time],
     position |-> position]

(***************************************************************************)
(* Initial state: a command about to search one video                      *)
(***************************************************************************)
AnyRecognizer == [kind |-> "any", blocks |-> <<>>]

LayoutRecognizer(blocks) == [kind |-> "layout", blocks |-> blocks]

NoReturn == [result |-> None, segment |-> None]

NoOutcome == "-"

\* AUDIO_SEGMENT_LENGTH and AUDIO_OVERLAP as configured
DefaultSettings ==
    [AUDIO_SEGMENT_LENGTH |-> AUDIO_SEGMENT_LENGTH, AUDIO_OVERLAP |-> AUDIO_OVERLAP]

\* the defaults of --segment-length and --overlap
DefaultOptions ==
    [segment_length |-> AUDIO_SEGMENT_LENGTH, overlap |-> AUDIO_OVERLAP]

Init ==
    /\ segment_length = AUDIO_SEGMENT_LENGTH * MsPerSecond
    /\ overlap = AUDIO_OVERLAP * MsPerSecond
    /\ settings = DefaultSettings
    /\ options = DefaultOptions
    /\ \/ /\ duration_ms \in Durations
          /\ recognizer = AnyRecognizer
       \/ /\ duration_ms = ScenarioDuration
          /\ recognizer \in {LayoutRecognizer(b) : b \in Layouts}
    /\ max_songs \in 0..MaxSongsBound
    /\ pc = "idle"
    /\ strategic_positions = <<>>
    /\ pos_idx = 1
    /\ results = <<>>
    /\ found_songs = EmptyMap
    /\ segment_counter = 0
    /\ stack = <<>>
    /\ ret = NoReturn
    /\ segment = None
    /\ segments = {}
    /\ alarm = 0
    /\ sigalrm_handler = PreviousHandler
    /\ probes = <<>>
    /\ run = 1
    /\ first_results = <<>>
    /\ outcome = NoOutcome
    /\ answer = None

(***************************************************************************)
(* process_video_optimized: strategic phase                                *)
(***************************************************************************)
Probe(phase, start_ms, index, depth, seg) ==
    [phase |-> phase,
     start_ms |-> start_ms,
     end_ms |-> SegmentEnd(start_ms, segment_length, duration_ms),
     index |-> index,
     depth |-> depth,
     created |-> seg # None,
     hit |-> FALSE]

LastProbeHit(log, result) ==
    [log EXCEPT ![Len(log)].hit = (result # None)]

\* load_audio: the file may be missing or unreadable
LoadOutcomes == IF recognizer.kind = "any" THEN BOOLEAN ELSE {TRUE}

\* lines 165-186
Start ==
    /\ pc = "idle"
    /\ \E loaded \in LoadOutcomes :
         /\ pc' = IF loaded THEN "strategic" ELSE "done"
         /\ strategic_positions' =
               IF loaded THEN get_strategic_positions(duration_ms, segment_length)
               ELSE <<>>
    /\ pos_idx' = 1
    /\ results' = <<>>
    /\ found_songs' = EmptyMap
    /\ segment_counter' = 0
    /\ probes' = <<>>
    /\ ret' = NoReturn
    /\ outcome' = NoOutcome
    /\ answer' = None
    /\ UNCHANGED <<config_vars, stack, segment, segments, alarm, sigalrm_handler, run, first_results>>

\* a counter that is passed down but not handed back
NextCounterStuck(counter) == counter

\* segment_counter += 1, returned by every call of binary_search_for_song
NextCounter(counter) == counter + 1

\* lines 188-197: one iteration of the loop up to the recognition call
StrategicProbe ==
    /\ pc = "strategic"
    /\ pos_idx <= Len(strategic_positions)
    /\ ~GoalMet(found_songs, max_songs)
    /\ \E export_ok \in ExportOutcomes :
         LET position_ms == strategic_positions[pos_idx][1]
             seg == create_segment_at_position(position_ms, segment_counter, export_ok)
         IN  /\ probes' = Append(probes,
                    Probe("strategic", position_ms, segment_counter, 0, seg))
             /\ segment_counter' = NextCounter(segment_counter)
             /\ IF seg # None
                THEN /\ segments' = segments \cup {seg[1]}
                     /\ segment' = seg
                     /\ alarm' = RecognitionTimeoutSeconds
                     /\ sigalrm_handler' = "timeout_handler"
                     /\ pc' = "strategic_identify"
                     /\ pos_idx' = pos_idx
                ELSE /\ pos_idx' = pos_idx + 1
                     /\ UNCHANGED <<segments, segment, alarm, sigalrm_handler, pc>>
    /\ outcome' = NoOutcome
    /\ answer' = None
    /\ UNCHANGED <<config_vars, strategic_positions, results, found_songs,
                   stack, ret, run, first_results>>

\* lines 198-233: the recognition call returns or is cut off, and the loop
\* body finishes
StrategicIdentify ==
    /\ pc = "strategic_identify"
    /\ \E o \in IdentifyOutcomes(segment[1]) :
         LET result == ResultOf(o)
             position_name == strategic_positions[pos_idx][2]
             accept == result # None /\ IsNewSong(found_songs, result[1])
         IN  /\ alarm' = AlarmAfterCall(alarm)
             /\ sigalrm_handler' = PreviousHandler
             /\ segment' = None
             /\ outcome' = o.kind
             /\ answer' = result
             /\ IF Propagates(o)
                THEN /\ pc' = "aborted"
                     /\ UNCHANGED <<found_songs, results, segments, pos_idx, probes>>
                ELSE /\ probes' = LastProbeHit(probes, result)
                     /\ found_songs' =
                           IF accept THEN Record(found_songs, result[1], segment[1])
                           ELSE found_songs
                     /\ results' =
                           IF accept
                           THEN Append(results,
                                    ResultEntry(result[1], segment[1], position_name))
                           ELSE results
                     /\ segments' = MarkProcessed(segments, segment[1])
                     /\ pos_idx' = pos_idx + 1
                     /\ pc' = "strategic"
    /\ UNCHANGED <<config_vars, strategic_positions, segment_counter, stack, ret,
                   run, first_results>>

Frame(start_ms, end_ms, depth) ==
    [start_ms |-> start_ms, end_ms |-> end_ms, depth |-> depth, at |-> "call"]

\* duration_ms // 2
HalfPoint(d) == d \div 2

\* lines 188-190 and 235-247: the loop ends, and the first half is searched
\* unless the goal is met
StrategicExit ==
    /\ pc = "strategic"
    /\ pos_idx > Len(strategic_positions) \/ GoalMet(found_songs, max_songs)
    /\ IF ~GoalMet(found_songs, max_songs)
       THEN /\ pc' = "in_first"
            /\ stack' = <<Frame(0, HalfPoint(duration_ms), 0)>>
       ELSE /\ pc' = "done"
            /\ stack' = stack
    /\ outcome' = NoOutcome
    /\ answer' = None
    /\ UNCHANGED <<config_vars, strategic_positions, pos_idx, results, found_songs,
                   segment_counter, ret, segment, segments, alarm, sigalrm_handler, probes, run,
                   first_results>>

(***************************************************************************)
(* binary_search_for_song                                                  *)
(***************************************************************************)
Top == stack[Len(stack)]

InBisection == pc \in {"in_first", "in_second"} /\ stack # <<>>

\* return result, segment, segment_counter: the frame is popped and the
\* caller resumes after its call
ReturnValue(result, seg) ==
    /\ ret' = [result |-> result, segment |-> seg]
    /\ IF Len(stack) = 1
       THEN /\ stack' = <<>>
            /\ pc' = IF pc = "in_first" THEN "first_ret" ELSE "second_ret"
       ELSE /\ stack' = [SubSeq(stack, 1, Len(stack) - 1)
                           EXCEPT ![Len(stack) - 1].at =
                               IF @ = "left" THEN "left_ret" ELSE "right_ret"]
            /\ pc' = pc

\* a recursive call: the caller waits at `at`
Call(at, start_ms, end_ms, depth) ==
    /\ stack' = Append([stack EXCEPT ![Len(stack)].at = at],
                       Frame(start_ms, end_ms, depth))
    /\ pc' = pc
    /\ ret' = ret

\* lines 148 and 156: which sub-ranges are searched
LeftFits(start_ms, end_ms, W) == MidMs(start_ms, end_ms) - start_ms >= W

\* a right sub-range that starts at mid_ms, not after the probed window
RightStartNoSkip(start_ms, end_ms, W) == MidMs(start_ms, end_ms)

\* mid_ms + self.segment_length
RightStart(start_ms, end_ms, W) == MidMs(start_ms, end_ms) + W

RightFits(start_ms, end_ms, W) == end_ms - RightStart(start_ms, end_ms, W) >= W

\* lines 155-163
SearchRight ==
    IF RightFits(Top.start_ms, Top.end_ms, segment_length)
    THEN Call("right", RightStart(Top.start_ms, Top.end_ms, segment_length),
              Top.end_ms, Top.depth + 1)
    ELSE ReturnValue(None, None)

\* lines 146-163
SearchSubranges ==
    IF LeftFits(Top.start_ms, Top.end_ms, segment_length)
    THEN Call("left", Top.start_ms, MidMs(Top.start_ms, Top.end_ms), Top.depth + 1)
    ELSE SearchRight

\* lines 81-85
BisectBase ==
    /\ InBisection
    /\ Top.at = "call"
    /\ IsBaseCase(Top.start_ms, Top.end_ms, Top.depth, segment_length)
    /\ ReturnValue(None, None)
    /\ outcome' = NoOutcome
    /\ answer' = None
    /\ UNCHANGED <<config_vars, strategic_positions, pos_idx, results, found_songs,
                   segment_counter, segment, segments, alarm, sigalrm_handler, probes, run,
                   first_results>>

PhaseOfPc == IF pc = "in_first" THEN "first_half" ELSE "second_half"

\* lines 87-100: the probe of the middle of the range, up to the recognition call
BisectProbe ==
    /\ InBisection
    /\ Top.at = "call"
    /\ ~IsBaseCase(Top.start_ms, Top.end_ms, Top.depth, segment_length)
    /\ \E export_ok \in ExportOutcomes :
         LET segment_start == BisectSegmentStart(Top.start_ms, Top.end_ms, segment_length)
             seg == create_segment_at_position(segment_start, segment_counter, export_ok)
         IN  /\ probes' = Append(probes,
                    Probe(PhaseOfPc, segment_start, segment_counter, Top.depth, seg))
             /\ segment_counter' = NextCounter(segment_counter)
             /\ IF seg # None
                THEN /\ segments' = segments \cup {seg[1]}
                     /\ segment' = seg
                     /\ alarm' = RecognitionTimeoutSeconds
                     /\ sigalrm_handler' = "timeout_handler"
                     /\ stack' = [stack EXCEPT ![Len(stack)].at = "identify"]
                     /\ UNCHANGED <<pc, ret>>
                ELSE /\ ReturnValue(None, None)
                     /\ UNCHANGED <<segments, segment, alarm, sigalrm_handler>>
    /\ outcome' = NoOutcome
    /\ answer' = None
    /\ UNCHANGED <<config_vars, strategic_positions, pos_idx, results, found_songs,
                   run, first_results>>

\* lines 120-163: the recognition call returns or is cut off; a duplicate or a
\* miss marks the segment processed, a miss goes on into the sub-ranges
BisectIdentify ==
    /\ InBisection
    /\ Top.at = "identify"
    /\ \E o \in IdentifyOutcomes(segment[1]) :
         LET result == ResultOf(o)
         IN  /\ alarm' = AlarmAfterCall(alarm)
             /\ sigalrm_handler' = PreviousHandler
             /\ segment' = None
             /\ outcome' = o.kind
             /\ answer' = result
             /\ IF Propagates(o)
                THEN /\ pc' = "aborted"
                     /\ UNCHANGED <<stack, ret, segments, probes>>
                ELSE /\ probes' = LastProbeHit(probes, result)
                     /\ IF result # None
                        THEN \E e \in OverlapErrs(found_songs, result[1]) :
                               IF IsOverlappingDuplicate(found_songs, result[1],
                                      StartMs(segment[1]), segment_length, e[1], e[2])
                               THEN /\ segments' = MarkProcessed(segments, segment[1])
                                    /\ ReturnValue(None, None)
                               ELSE /\ segments' = segments
                                    /\ ReturnValue(result, segment)
                        ELSE /\ segments' = MarkProcessed(segments, segment[1])
                             /\ SearchSubranges
    /\ UNCHANGED <<config_vars, strategic_positions, pos_idx, results, found_songs,
                   segment_counter, run, first_results>>

\* a caller that ignores what its sub-range returned
FoundInSubrangeNever(r) == FALSE

\* if result:   (lines 152 and 160)
FoundInSubrange(r) == r.result # None

\* lines 152-163: the search of the left sub-range has returned
BisectAfterLeft ==
    /\ InBisection
    /\ Top.at = "left_ret"
    /\ IF FoundInSubrange(ret)
       THEN ReturnValue(ret.result, ret.segment)
       ELSE SearchRight
    /\ outcome' = NoOutcome
    /\ answer' = None
    /\ UNCHANGED <<config_vars, strategic_positions, pos_idx, results, found_songs,
                   segment_counter, segment, segments, alarm, sigalrm_handler, probes, run,
                   first_results>>

\* lines 160-163: the search of the right sub-range has returned
BisectAfterRight ==
    /\ InBisection
    /\ Top.at = "right_ret"
    /\ IF FoundInSubrange(ret)
       THEN ReturnValue(ret.result, ret.segment)
       ELSE ReturnValue(None, None)
    /\ outcome' = NoOutcome
    /\ answer' = None
    /\ UNCHANGED <<config_vars, strategic_positions, pos_idx, results, found_songs,
                   segment_counter, segment, segments, alarm, sigalrm_handler, probes, run,
                   first_results>>

(***************************************************************************)
(* process_video_optimized: the two halves                                 *)
(***************************************************************************)
\* lines 249-260 and 269-280: what the caller does with a returned match
AcceptReturned(position) ==
    LET accept == /\ ret.result # None
                  /\ ret.segment # None
                  /\ IsNewSong(found_songs, ret.result[1])
    IN  /\ found_songs' =
              IF accept THEN Record(found_songs, ret.result[1], ret.segment[1])
              ELSE found_songs
        /\ results' =
              IF accept
              THEN Append(results,
                       ResultEntry(ret.result[1], ret.segment[1], position))
              ELSE results
        /\ segments' =
              IF ret.result # None /\ ret.segment # None
              THEN MarkProcessed(segments, ret.segment[1])
              ELSE segments

\* lines 249-267
FirstHalfReturn ==
    /\ pc = "first_ret"
    /\ AcceptReturned("first_half")
    /\ IF ~GoalMet(found_songs', max_songs)
       THEN /\ pc' = "in_second"
            /\ stack' = <<Frame(HalfPoint(duration_ms), duration_ms, 0)>>
       ELSE /\ pc' = "done"
            /\ stack' = stack
    /\ ret' = NoReturn
    /\ outcome' = NoOutcome
    /\ answer' = None
    /\ UNCHANGED <<config_vars, strategic_positions, pos_idx, segment_counter,
                   segment, alarm, sigalrm_handler, probes, run, first_results>>

\* lines 269-287
SecondHalfReturn ==
    /\ pc = "second_ret"
    /\ AcceptReturned("second_half")
    /\ pc' = "done"
    /\ ret' = NoReturn
    /\ outcome' = NoOutcome
    /\ answer' = None
    /\ UNCHANGED <<config_vars, strategic_positions, pos_idx, segment_counter,
                   stack, segment, alarm, sigalrm_handler, probes, run, first_results>>

(***************************************************************************)
(* The command around the search                                           *)
(***************************************************************************)
\* cleanup_unprocessed_segments, called by handle after the search
Cleanup ==
    /\ pc = "done"
    /\ segments' = {r \in segments : r.processed}
    /\ pc' = "cleaned"
    /\ outcome' = NoOutcome
    /\ answer' = None
    /\ UNCHANGED <<config_vars, strategic_positions, pos_idx, results, found_songs,
                   segment_counter, stack, ret, segment, alarm, sigalrm_handler, probes, run,
                   first_results>>

\* the command is run again on the same video, with the same storage
Rerun ==
    /\ pc = "cleaned"
    /\ run < MaxRuns
    /\ run' = run + 1
    /\ first_results' = IF run = 1 THEN results ELSE first_results
    /\ pc' = "idle"
    /\ outcome' = NoOutcome
    /\ answer' = None
    /\ UNCHANGED <<config_vars, strategic_positions, pos_idx, results, found_songs,
                   segment_counter, stack, ret, segment, segments, alarm, sigalrm_handler, probes>>

\* one search of the video, and the cleanup that follows it
Next ==
    \/ Start
    \/ StrategicProbe
    \/ StrategicIdentify
    \/ StrategicExit
    \/ BisectBase
    \/ BisectProbe
    \/ BisectIdentify
    \/ BisectAfterLeft
    \/ BisectAfterRight
    \/ FirstHalfReturn
    \/ SecondHalfReturn
    \/ Cleanup

Spec == Init /\ [][Next]_vars

\* the command run up to MaxRuns times on the same video and storage
RerunNext ==
    \/ Next
    \/ Rerun

RerunSpec == Init /\ [][RerunNext]_vars

(***************************************************************************)
(* The planner alone, over every duration up to MaxPlannerDuration         *)
(***************************************************************************)
PlannerWindows ==
    {AUDIO_SEGMENT_LENGTH * MsPerSecond}
        \cup {k * MsPerSecond : k \in 1..MaxPlannerSeconds}

PlannerInit ==
    /\ segment_length \in PlannerWindows
    /\ overlap = AUDIO_OVERLAP * MsPerSecond
    /\ settings = [DefaultSettings EXCEPT
                      !.AUDIO_SEGMENT_LENGTH = segment_length \div MsPerSecond]
    /\ options = [DefaultOptions EXCEPT
                     !.segment_length = segment_length \div MsPerSecond]
    /\ duration_ms \in 1..MaxPlannerDuration
    /\ recognizer = AnyRecognizer
    /\ max_songs = DefaultMaxSongs
    /\ pc = "planner"
    /\ strategic_positions = <<>>
    /\ pos_idx = 1
    /\ results = <<>>
    /\ found_songs = EmptyMap
    /\ segment_counter = 0
    /\ stack = <<>>
    /\ ret = NoReturn
    /\ segment = None
    /\ segments = {}
    /\ alarm = 0
    /\ sigalrm_handler = PreviousHandler
    /\ probes = <<>>
    /\ run = 1
    /\ first_results = <<>>
    /\ outcome = NoOutcome
    /\ answer = None

\* strategic_positions = self.get_strategic_positions(duration_ms)
Plan ==
    /\ pc = "planner"
    /\ strategic_positions' = get_strategic_positions(duration_ms, segment_length)
    /\ pc' = "planned"
    /\ UNCHANGED <<config_vars, pos_idx, results, found_songs, segment_counter,
                   stack, ret, segment, segments, alarm, sigalrm_handler, probes, run,
                   first_results, outcome, answer>>

PlannerSpec == PlannerInit /\ [][Plan]_vars

(***************************************************************************)
(* Properties                                                              *)
(***************************************************************************)
Loaded == strategic_positions # <<>>

MaxStart == duration_ms - segment_length

\* C1: with max_songs = 0 the search issues no probe (no segment is created,
\* the recognizer is never called) and returns an empty result list, for
\* every duration
C1_ZeroMaxSongsNoProbe ==
    max_songs = 0 =>
        /\ probes = <<>>
        /\ segments = {}
        /\ segment_counter = 0
        /\ segment = None
        /\ alarm = 0
        /\ outcome = NoOutcome
        /\ answer = None
        /\ stack = <<>>
        /\ results = <<>>

C1_Witness ==
    /\ max_songs = 0
    /\ pc = "done"
    /\ Loaded
    /\ duration_ms >= 2 * segment_length

\* C2: the result list holds at most max_songs entries in every state of a
\* search and when it returns
C2_AtMostMaxSongs == Len(results) <= max_songs

\* the goal is met after the first strategic probe and the search stops there
C2_Witness ==
    /\ pc = "done"
    /\ max_songs = 1
    /\ Len(results) = 1
    /\ Len(probes) = 1
    /\ recognizer.kind = "any"

HitCount == Cardinality({i \in 1..Len(probes) : probes[i].hit})

\* C3: no two entries of the result list have the same song identity (title
\* and artist list), and len(results) = len(found_songs) in every state: a
\* match whose identity is already known is never appended or counted
C3_NoDuplicateIdentity ==
    /\ \A i, j \in 1..Len(results) :
          i # j => results[i].result # results[j].result
    /\ Len(results) = NumFound(found_songs)

\* the same song was matched by both strategic probes and returned by the
\* bisection of both halves from windows that do not overlap the recorded one
C3_Witness ==
    /\ pc = "done"
    /\ Len(results) = 1
    /\ HitCount = 4
    /\ \A h \in {"first_half", "second_half"} :
          \E i \in 1..Len(probes) :
             /\ probes[i].hit
             /\ probes[i].phase = h
             /\ \/ probes[i].end_ms <= results[1].segment.start_time.ms
                \/ probes[i].start_ms >= results[1].segment.end_time.ms

\* C7: for every duration d >= windowMs the planner returns exactly 2
\* positions, each with 0 <= start <= d - windowMs
C7_StrategicPositionsInRange ==
    (pc = "planned" /\ duration_ms >= segment_length) =>
        /\ Len(strategic_positions) = 2
        /\ \A i \in 1..Len(strategic_positions) :
              /\ 0 <= strategic_positions[i][1]
              /\ strategic_positions[i][1] <= MaxStart

\* both fallback branches are taken
C7_Witness ==
    /\ pc = "planned"
    /\ duration_ms > segment_length
    /\ strategic_positions[1][2] = "middle"
    /\ strategic_positions[2][2] = "end"
    /\ strategic_positions[1][1] > 0

\* C8 as stated: for windowMs <= d < 2*windowMs the two strategic positions
\* are the same start position, and it is in range
C8_SamePlacement ==
    (pc = "planned" /\ segment_length <= duration_ms
                    /\ duration_ms < 2 * segment_length) =>
        /\ strategic_positions[1][1] = strategic_positions[2][1]
        /\ 0 <= strategic_positions[1][1]
        /\ strategic_positions[1][1] <= MaxStart

\* C8 amended: for windowMs <= d < 2*windowMs both strategic positions are in
\* range, the second is the last placement d - windowMs, and the two coincide
\* exactly when d = windowMs or d div 3 = d - windowMs
C8_InRangeSecondLast ==
    (pc = "planned" /\ segment_length <= duration_ms
                    /\ duration_ms < 2 * segment_length) =>
        /\ \A i \in 1..2 :
              /\ 0 <= strategic_positions[i][1]
              /\ strategic_positions[i][1] <= MaxStart
        /\ strategic_positions[2][1] = MaxStart
        /\ strategic_positions[1][1] <= strategic_positions[2][1]
        /\ (strategic_positions[1][1] = strategic_positions[2][1])
              <=> (duration_ms = segment_length
                      \/ duration_ms \div 3 = MaxStart)

\* two different placements for a recording shorter than two windows
C8_Witness ==
    /\ pc = "planned"
    /\ segment_length < duration_ms
    /\ duration_ms < 2 * segment_length
    /\ strategic_positions[1][1] # strategic_positions[2][1]

\* the probes a bisection of [s, e) issues when no probe matches
RECURSIVE NoMatchBisectProbes(_, _, _, _)
NoMatchBisectProbes(s, e, depth, W) ==
    IF e - s < W \/ depth > MaxDepth THEN 0
    ELSE 1
         + (IF ((s + e) \div 2) - s >= W
            THEN NoMatchBisectProbes(s, (s + e) \div 2, depth + 1, W) ELSE 0)
         + (IF e - (((s + e) \div 2) + W) >= W
            THEN NoMatchBisectProbes(((s + e) \div 2) + W, e, depth + 1, W) ELSE 0)

\* every probe so far had its clip extracted and its recognition call
\* answered with no match
AllNoMatch ==
    \A i \in 1..Len(probes) : probes[i].created /\ ~probes[i].hit

PhaseCount(phase) ==
    Cardinality({i \in 1..Len(probes) : probes[i].phase = phase})

\* no probe so far produced a match (a failed clip extraction counts as none)
NoHit == \A i \in 1..Len(probes) : ~probes[i].hit

C4_CountsAtDone ==
    /\ (pc = "done" /\ Loaded /\ max_songs >= 1 /\ NoHit) =>
          /\ results = <<>>
          /\ PhaseCount("strategic") = 2
          /\ PhaseCount("first_half") <=
                NoMatchBisectProbes(0, duration_ms \div 2, 0, segment_length)
          /\ PhaseCount("second_half") <=
                NoMatchBisectProbes(duration_ms \div 2, duration_ms, 0, segment_length)
          /\ Len(probes) <= 2 + duration_ms \div segment_length
    /\ (pc = "done" /\ Loaded /\ max_songs >= 1 /\ AllNoMatch) =>
          /\ PhaseCount("first_half") =
                NoMatchBisectProbes(0, duration_ms \div 2, 0, segment_length)
          /\ PhaseCount("second_half") =
                NoMatchBisectProbes(duration_ms \div 2, duration_ms, 0, segment_length)

\* C4: when every probe returns no match the search terminates: it issues
\* the 2 strategic probes and the bisection probes of the first and of the
\* second half, a finite number, and returns an empty result
C4_NoMatchTerminates ==
    /\ []C4_CountsAtDone
    /\ (pc = "strategic") ~> (pc = "done" \/ ~NoHit)

\* a silent recording long enough for both halves to recurse
C4_Witness ==
    /\ pc = "done"
    /\ Loaded
    /\ AllNoMatch
    /\ max_songs >= 1
    /\ \E i \in 1..Len(probes) :
          probes[i].phase = "first_half" /\ probes[i].depth >= 2
    /\ \E i \in 1..Len(probes) :
          probes[i].phase = "second_half" /\ probes[i].depth >= 2

\* one search: the single-threaded command always takes its next step
LiveSpec == Init /\ [][Next]_vars /\ WF_vars(Next)

ResultSongs == {results[i].result : i \in 1..Len(results)}

\* C5: on the 600,000 ms recording with 30,000 ms windows and max_songs = 2,
\* where "Song A" plays in [190000,220000) and "Song B" in [400000,430000),
\* the search returns both songs, each once, with at most 2 + 2*11 probes
C5_TwoSongScenario ==
    (/\ recognizer = LayoutRecognizer(TwoSongLayout)
     /\ duration_ms = ScenarioDuration
     /\ segment_length = AUDIO_SEGMENT_LENGTH * MsPerSecond
     /\ max_songs = DefaultMaxSongs
     /\ run = 1) =>
        /\ Len(probes) <= 2 + 2 * (MaxDepth + 1)
        /\ pc \in {"done", "cleaned"} =>
              /\ Len(results) = 2
              /\ ResultSongs = {SongA, SongB}

C5_Witness ==
    /\ recognizer = LayoutRecognizer(TwoSongLayout)
    /\ duration_ms = ScenarioDuration
    /\ max_songs = DefaultMaxSongs
    /\ run = 1
    /\ pc = "done"
    /\ Len(probes) >= 2

\* C6: a second search of the same video on the same storage with the same
\* deterministic recognizer returns the result list of the first
C6_RerunSameResult ==
    (recognizer.kind = "layout" /\ run = 2 /\ pc = "done") =>
        results = first_results

\* C9: every window probed in a search satisfies
\* 0 <= startMs < endMs <= duration
C9_ProbedWindowsValid ==
    \A i \in 1..Len(probes) :
        /\ 0 <= probes[i].start_ms
        /\ probes[i].start_ms < probes[i].end_ms
        /\ probes[i].end_ms <= duration_ms

\* the state a bisection call is left in when its probe found nothing
NoMatchContinues ==
    LET W == segment_length
        mid == (Top.start_ms + Top.end_ms) \div 2
    IN  IF mid - Top.start_ms >= W
        THEN /\ Len(stack') = Len(stack) + 1
             /\ stack'[Len(stack')] = Frame(Top.start_ms, mid, Top.depth + 1)
             /\ stack'[Len(stack)].at = "left"
        ELSE IF Top.end_ms - (mid + W) >= W
        THEN /\ Len(stack') = Len(stack) + 1
             /\ stack'[Len(stack')] = Frame(mid + W, Top.end_ms, Top.depth + 1)
             /\ stack'[Len(stack)].at = "right"
        ELSE /\ Len(stack') = Len(stack) - 1
             /\ ret' = NoReturn

TimeoutStep ==
    /\ segment # None
    /\ segment' = None
    /\ outcome' = "timeout"

\* C10: a recognition call that exceeds the deadline is treated like one that
\* returns no song: the segment is marked processed, nothing is added to the
\* results, and the search takes its next step without aborting
C10_TimeoutIsNoMatch ==
    [][TimeoutStep =>
         /\ results' = results
         /\ found_songs' = found_songs
         /\ \E r \in segments' : SameRow(r, segment[1]) /\ r.processed
         /\ ~probes'[Len(probes')].hit
         /\ alarm' = 0
         /\ pc' # "aborted"
         /\ IF pc = "strategic_identify"
            THEN pc' = "strategic" /\ pos_idx' = pos_idx + 1
            ELSE NoMatchContinues]_vars

\* a timed-out bisection probe was followed by the search of its left sub-range
C10_Witness ==
    /\ outcome = "timeout"
    /\ Len(stack) >= 2
    /\ Top.at = "call"
    /\ Top.depth = 1
    /\ stack[Len(stack) - 1].at = "left"

ErrorStep ==
    /\ segment # None
    /\ segment' = None
    /\ outcome' = "error"

\* C11: a transport error of the recognizer on a probe is treated like no
\* song found at that window: the search is never aborted, the results
\* accumulated so far are kept, and the search takes the step it takes after
\* a probe without a match
C11_ErrorIsNoMatch ==
    /\ [](pc # "aborted")
    /\ [][ErrorStep =>
            /\ results' = results
            /\ found_songs' = found_songs
            /\ ~probes'[Len(probes')].hit
            /\ \E r \in segments' : SameRow(r, segment[1]) /\ r.processed
            /\ IF pc = "strategic_identify"
               THEN pc' = "strategic" /\ pos_idx' = pos_idx + 1
               ELSE NoMatchContinues]_vars

\* a failed probe of the second half kept the result found before it and was
\* followed by the search of a sub-range
C11_Witness ==
    /\ outcome = "error"
    /\ pc = "in_second"
    /\ Len(results) = 1
    /\ Len(stack) >= 2
    /\ Top.at = "call"

\* a probe whose clip could not be extracted
ExtractionFailedStep ==
    /\ Len(probes') = Len(probes) + 1
    /\ ~probes'[Len(probes')].created

\* C12: a clip extraction failure affects only its probe: the search is not
\* aborted and continues as after a probe without a match, to the next
\* strategic position or, in bisection, into the left and right sub-ranges
C12_ExtractionFailureIsNoMatch ==
    [][ExtractionFailedStep =>
         /\ results' = results
         /\ found_songs' = found_songs
         /\ pc' # "aborted"
         /\ IF pc = "strategic"
            THEN pc' = "strategic" /\ pos_idx' = pos_idx + 1
            ELSE NoMatchContinues]_vars

\* the identity is known and the half-open millisecond window of segment s
\* overlaps the window recorded for it
KnownAndOverlapping(result, s) ==
    /\ SongKey(result) \in DOMAIN found_songs
    /\ StartMs(s) < found_songs[SongKey(result)][2].ms
    /\ found_songs[SongKey(result)][1].ms < EndMs(s)

DuplicateStep ==
    /\ segment # None
    /\ segment' = None
    /\ answer' # None
    /\ KnownAndOverlapping(answer'[1], segment[1])

\* C13: a match whose identity is already in found_songs and whose window
\* overlaps the recorded one is a duplicate: it is not added to the results,
\* found_songs is unchanged, bisection returns no match for it, and the
\* window recorded for an identity is never replaced
C13_OverlappingDuplicate ==
    /\ [][DuplicateStep =>
            /\ results' = results
            /\ found_songs' = found_songs
            /\ \E r \in segments' : SameRow(r, segment[1]) /\ r.processed
            /\ pc \in {"in_first", "in_second"} =>
                  /\ ret' = NoReturn
                  /\ Len(stack') = Len(stack) - 1]_vars
    /\ [][\A k \in DOMAIN found_songs :
            /\ k \in DOMAIN found_songs'
            /\ found_songs'[k] = found_songs[k]]_vars

\* the first bisection probe of the first half matched the song recorded at
\* the first strategic position, on a window overlapping it
C13_Witness ==
    /\ pc = "first_ret"
    /\ answer # None
    /\ ret = NoReturn
    /\ Len(results) = 1
    /\ results[1].position = "1/3"
    /\ results[1].result = answer[1]
    /\ probes[Len(probes)].start_ms < results[1].segment.end_time.ms
    /\ results[1].segment.start_time.ms < probes[Len(probes)].end_ms

PhaseRank(phase) ==
    CASE phase = "strategic" -> 1
      [] phase = "first_half" -> 2
      [] phase = "second_half" -> 3

\* the probes so far are in phase order, and the k-th strategic probe is the
\* one at the k-th strategic position
ProbesInPhaseOrder ==
    /\ \A i, j \in 1..Len(probes) :
          i < j => PhaseRank(probes[i].phase) <= PhaseRank(probes[j].phase)
    /\ \A i \in 1..Len(probes) :
          probes[i].phase = "strategic" =>
             /\ i <= Len(strategic_positions)
             /\ probes[i].start_ms = strategic_positions[i][1]

GoalReached == Cardinality(DOMAIN found_songs) >= max_songs

\* the phase changes of one search
PhaseStep ==
    /\ (pc = "strategic" /\ pc' # "strategic") =>
          \/ pc' = "strategic_identify"
          \/ pc' = "done" /\ GoalReached
          \/ pc' = "in_first" /\ ~GoalReached
    /\ pc = "strategic_identify" => pc' = "strategic"
    /\ (pc = "in_first" /\ pc' # "in_first") => pc' = "first_ret"
    /\ pc = "first_ret" =>
          \/ pc' = "done" /\ GoalReached'
          \/ pc' = "in_second" /\ ~GoalReached'
    /\ (pc = "in_second" /\ pc' # "in_second") => pc' = "second_ret"
    /\ pc = "second_ret" => pc' = "done"
    /\ pc = "done" => pc' = "cleaned"

\* C14: the search goes through Strategic, Bisecting(first half),
\* Bisecting(second half), Done in this order only: probes are issued in phase
\* order, the first strategic position before the second, and after each
\* phase the search is Done if len(found_songs) >= max_songs and in the next
\* phase otherwise
C14_PhaseOrder ==
    /\ []ProbesInPhaseOrder
    /\ [][PhaseStep]_vars

\* a search that went through all three phases and met its goal in the last
C14_Witness ==
    /\ pc = "done"
    /\ PhaseCount("strategic") = 2
    /\ PhaseCount("first_half") >= 1
    /\ PhaseCount("second_half") >= 1
    /\ max_songs >= 1
    /\ GoalReached

\* a step that creates a segment, starts a recognition call or finishes one
ProbeStep ==
    \/ Len(probes') > Len(probes)
    \/ segment_counter' > segment_counter
    \/ \E r \in segments' : \A q \in segments : ~SameRow(q, r)
    \/ segment' # None /\ segment = None
    \/ alarm' > 0 /\ alarm = 0
    \/ outcome' # NoOutcome

\* C15: no probe is issued once len(found_songs) >= max_songs: no segment is
\* created and the recognizer is not called in such a state, in the middle of
\* the strategic loop or after a half's bisection
C15_NoProbeAfterGoal ==
    [][ProbeStep => ~GoalReached]_vars

\* the goal was met by the first half's bisection and the second half was
\* not searched
C15_Witness ==
    /\ pc = "done"
    /\ max_songs >= 1
    /\ GoalReached
    /\ results[Len(results)].position = "first_half"
    /\ PhaseCount("second_half") = 0
    /\ duration_ms >= 4 * segment_length

\* C16: for a recording shorter than one window and max_songs >= 1 the
\* strategic phase still runs, its windows shrunk to fit inside [0, d), and
\* neither bisection phase issues a probe
C16_ShortRecording ==
    (duration_ms < segment_length /\ max_songs >= 1 /\ Loaded) =>
        /\ \A i \in 1..Len(probes) :
              /\ probes[i].phase = "strategic"
              /\ 0 <= probes[i].start_ms
              /\ probes[i].start_ms < probes[i].end_ms
              /\ probes[i].end_ms <= duration_ms
        /\ pc \in {"done", "cleaned"} => Len(probes) >= 1

\* probe i was answered with a match that became an entry of the results
Accepted(i) ==
    /\ probes[i].hit
    /\ \E k \in 1..Len(results) :
          /\ results[k].segment.start_time.ms = probes[i].start_ms
          /\ results[k].segment.end_time.ms = probes[i].end_ms

RowOfProbe(i) ==
    {r \in segments : StartMs(r) = probes[i].start_ms /\ EndMs(r) = probes[i].end_ms}

\* C17: when the search returns, the segment of every probe that was created
\* and did not yield an accepted match (no match, timeout, duplicate, or a
\* match returned by bisection and not added) is marked processed
C17_UnacceptedProcessed ==
    pc = "done" =>
        \A i \in 1..Len(probes) :
            (probes[i].created /\ ~Accepted(i)) =>
                /\ RowOfProbe(i) # {}
                /\ \A r \in RowOfProbe(i) : r.processed

\* the bisection of the second half returned a match of the song already
\* recorded at a strategic position, from a window that does not overlap it
C17_Witness ==
    /\ pc = "done"
    /\ Len(results) = 1
    /\ results[1].position = "1/3"
    /\ \E i \in 1..Len(probes) :
          /\ probes[i].phase = "second_half"
          /\ probes[i].hit
          /\ ~Accepted(i)
          /\ probes[i].start_ms >= results[1].segment.end_time.ms
    /\ \E i \in 1..Len(probes) : probes[i].created /\ ~probes[i].hit

(***************************************************************************)
(* recognize_music: the command from the creation of its components        *)
(***************************************************************************)
OptionValues ==
    [segment_length : {k * OptionStep : k \in 0..MaxOptionSteps},
     overlap : {k * OverlapStep : k \in 0..MaxOptionSteps}]

CommandInit ==
    /\ options \in OptionValues
    /\ settings = DefaultSettings
    /\ segment_length = 0
    /\ overlap = 0
    /\ \/ /\ duration_ms \in Durations
          /\ recognizer = AnyRecognizer
       \/ /\ duration_ms = ScenarioDuration
          /\ recognizer \in {LayoutRecognizer(b) : b \in Layouts}
    /\ max_songs = DefaultMaxSongs
    /\ pc = "handle"
    /\ strategic_positions = <<>>
    /\ pos_idx = 1
    /\ results = <<>>
    /\ found_songs = EmptyMap
    /\ segment_counter = 0
    /\ stack = <<>>
    /\ ret = NoReturn
    /\ segment = None
    /\ segments = {}
    /\ alarm = 0
    /\ sigalrm_handler = PreviousHandler
    /\ probes = <<>>
    /\ run = 1
    /\ first_results = <<>>
    /\ outcome = NoOutcome
    /\ answer = None

search_vars == <<duration_ms, max_songs, recognizer, strategic_positions, pos_idx,
                 results, found_songs, segment_counter, stack, ret, segment,
                 segments, alarm, sigalrm_handler, probes, run, first_results, outcome, answer>>

\* processor = OptimizedAudioProcessor(): __init__ reads the settings
ConstructProcessor ==
    /\ pc = "handle"
    /\ segment_length' = settings.AUDIO_SEGMENT_LENGTH * MsPerSecond
    /\ overlap' = settings.AUDIO_OVERLAP * MsPerSecond
    /\ pc' = "constructed"
    /\ UNCHANGED <<search_vars, settings, options>>

\* Override settings if provided
OverrideSettings ==
    /\ pc = "constructed"
    /\ settings' =
          [AUDIO_SEGMENT_LENGTH |->
               IF options.segment_length # 0 THEN options.segment_length
               ELSE settings.AUDIO_SEGMENT_LENGTH,
           AUDIO_OVERLAP |->
               IF options.overlap # 0 THEN options.overlap
               ELSE settings.AUDIO_OVERLAP]
    /\ pc' = "idle"
    /\ UNCHANGED <<search_vars, segment_length, overlap, options>>

CommandNext ==
    \/ ConstructProcessor
    \/ OverrideSettings
    \/ Next

CommandSpec == CommandInit /\ [][CommandNext]_vars

\* C18: with --segment-length N (or --overlap M) the processor that
\* processes the videos cuts segments of N seconds (with M seconds of
\* overlap): the command line value is the one in its segment_length / overlap
C18_OptionInEffect ==
    pc \notin {"handle", "constructed"} =>
        /\ options.segment_length # 0 =>
              segment_length = options.segment_length * MsPerSecond
        /\ options.overlap # 0 =>
              overlap = options.overlap * MsPerSecond

\* a probe issued by a call of binary_search_for_song
BisectProbeStep ==
    /\ Len(probes') = Len(probes) + 1
    /\ pc \in {"in_first", "in_second"}

\* a recursive call of binary_search_for_song
RecursionStep ==
    /\ stack # <<>>
    /\ Len(stack') = Len(stack) + 1

\* C19: a bisection call on [start, end) with end - start >= windowMs probes
\* the window starting at min(mid, end - windowMs), mid = (start + end) div 2,
\* which lies inside [start, end); it recurses only into [start, mid) and
\* [mid + windowMs, end), and no range shorter than windowMs is probed
C19_BisectionGeometry ==
    /\ [][BisectProbeStep =>
            LET mid == (Top.start_ms + Top.end_ms) \div 2
                p == probes'[Len(probes')]
            IN  /\ Top.end_ms - Top.start_ms >= segment_length
                /\ p.start_ms = IF mid <= Top.end_ms - segment_length
                                THEN mid ELSE Top.end_ms - segment_length
                /\ Top.start_ms <= p.start_ms
                /\ p.end_ms = p.start_ms + segment_length
                /\ p.end_ms <= Top.end_ms]_vars
    /\ [][RecursionStep =>
            LET mid == (Top.start_ms + Top.end_ms) \div 2
                new == stack'[Len(stack')]
            IN  /\ new.depth = Top.depth + 1
                /\ new.end_ms - new.start_ms >= segment_length
                /\ \/ /\ new.start_ms = Top.start_ms
                      /\ new.end_ms = mid
                      /\ stack'[Len(stack)].at = "left"
                   \/ /\ new.start_ms = mid + segment_length
                      /\ new.end_ms = Top.end_ms
                      /\ stack'[Len(stack)].at = "right"]_vars

\* the probe of a right sub-range one window long, placed at its start
\* rather than at its middle
C19_Witness ==
    /\ Len(stack) >= 2
    /\ stack[Len(stack) - 1].at = "right"
    /\ Top.at = "identify"
    /\ Top.start_ms = ((stack[Len(stack) - 1].start_ms
                           + stack[Len(stack) - 1].end_ms) \div 2) + segment_length
    /\ probes[Len(probes)].start_ms = Top.end_ms - segment_length
    /\ probes[Len(probes)].start_ms < (Top.start_ms + Top.end_ms) \div 2

\* a bisection probe was answered with no song, with a timeout, or with a
\* song whose identity is already in found_songs
NoNewMatchStep ==
    /\ pc \in {"in_first", "in_second"}
    /\ segment # None
    /\ segment' = None
    /\ pc' # "aborted"
    /\ answer' # None => SongKey(answer'[1]) \in DOMAIN found_songs

\* C20: whenever a bisection probe does not yield a new match (no song, a
\* timeout, or a song already in found_songs, overlapping or not) the
\* procedure goes on into the left sub-range and then the right one, each if
\* it is at least windowMs long
C20_KnownSongKeepsSearching ==
    [][NoNewMatchStep =>
         LET W == segment_length
             mid == (Top.start_ms + Top.end_ms) \div 2
         IN  /\ mid - Top.start_ms >= W =>
                   /\ Len(stack') = Len(stack) + 1
                   /\ stack'[Len(stack')] = Frame(Top.start_ms, mid, Top.depth + 1)
             /\ (mid - Top.start_ms < W /\ Top.end_ms - (mid + W) >= W) =>
                   /\ Len(stack') = Len(stack) + 1
                   /\ stack'[Len(stack')] = Frame(mid + W, Top.end_ms, Top.depth + 1)]_vars

\* a bisection probe was answered with a song that is not in found_songs
NewMatchStep ==
    /\ pc \in {"in_first", "in_second"}
    /\ segment # None
    /\ segment' = None
    /\ answer' # None
    /\ SongKey(answer'[1]) \notin DOMAIN found_songs

\* a match is on its way up from a call of binary_search_for_song
MatchReturning == pc \in {"in_first", "in_second"} /\ ret.result # None

PositionCount(position) ==
    Cardinality({k \in 1..Len(results) : results[k].position = position})

\* C21: once a probe in the bisection of a half yields a new match, no
\* further probe is issued in that half, in its own sub-ranges or in pending
\* right sub-ranges of its ancestors; a half adds at most one result
C21_HalfStopsAtMatch ==
    /\ [][NewMatchStep =>
            /\ ret'.result = answer'
            /\ Len(stack') = Len(stack) - 1
            /\ pc' \in {"in_first", "in_second"} => stack' # <<>>]_vars
    /\ [][MatchReturning =>
            /\ probes' = probes
            /\ segments' = segments
            /\ segment_counter' = segment_counter
            /\ ret' = ret
            /\ Len(stack') = Len(stack) - 1]_vars
    /\ [](PositionCount("first_half") <= 1 /\ PositionCount("second_half") <= 1)

\* a match found in a left sub-range is being returned past a right sub-range
\* that is long enough to be searched
C21_Witness ==
    /\ MatchReturning
    /\ stack # <<>>
    /\ Top.at = "left_ret"
    /\ Top.end_ms - (((Top.start_ms + Top.end_ms) \div 2) + segment_length)
          >= segment_length
    /\ SongKey(ret.result[1]) \notin DOMAIN found_songs

(***************************************************************************)
(* Long recordings: the search where the depth limit comes into play       *)
(***************************************************************************)
RECURSIVE Pow2(_)
Pow2(n) == IF n = 0 THEN 1 ELSE 2 * Pow2(n - 1)

\* 2^12 windows: a half of it halves down to one window at depth 11
DepthLimitDuration ==
    Pow2(MaxDepth + 2) * (AUDIO_SEGMENT_LENGTH * MsPerSecond)

DeepDurations == {DepthLimitDuration - k : k \in 0..DeepSlack}

\* a twenty minute recording
LongDuration == 2 * ScenarioDuration

\* a fake recognizer that knows one song in each half, in the fourth window
\* from the start of the half
DeepLayout(d, W) ==
    << [song |-> SongA, start |-> 3 * W, end |-> 4 * W - 1],
       [song |-> SongB, start |-> (d \div 2) + 3 * W,
                        end |-> (d \div 2) + 4 * W - 1] >>

LongInit ==
    /\ segment_length = AUDIO_SEGMENT_LENGTH * MsPerSecond
    /\ overlap = AUDIO_OVERLAP * MsPerSecond
    /\ settings = DefaultSettings
    /\ options = DefaultOptions
    /\ \/ /\ duration_ms \in DeepDurations
          /\ recognizer = LayoutRecognizer(DeepLayout(duration_ms, segment_length))
       \/ /\ duration_ms = LongDuration
          /\ recognizer = LayoutRecognizer(SilentLayout)
    /\ max_songs \in 1..MaxSongsBound
    /\ pc = "idle"
    /\ strategic_positions = <<>>
    /\ pos_idx = 1
    /\ results = <<>>
    /\ found_songs = EmptyMap
    /\ segment_counter = 0
    /\ stack = <<>>
    /\ ret = NoReturn
    /\ segment = None
    /\ segments = {}
    /\ alarm = 0
    /\ sigalrm_handler = PreviousHandler
    /\ probes = <<>>
    /\ run = 1
    /\ first_results = <<>>
    /\ outcome = NoOutcome
    /\ answer = None

LongSpec == LongInit /\ [][Next]_vars

LongLiveSpec == LongInit /\ [][Next]_vars /\ WF_vars(Next)

\* a call of binary_search_for_song beyond the depth limit is about to run
DepthExceeded == stack # <<>> /\ Top.depth > MaxDepth

\* C22: no bisection probe is issued at depth greater than 10; a call beyond
\* that depth abandons only its own branch, returning not-found to its
\* parent, and the search goes on and returns normally
C22_DepthLimit ==
    /\ [](\A i \in 1..Len(probes) : probes[i].depth <= MaxDepth)
    /\ [][DepthExceeded =>
            /\ probes' = probes
            /\ segments' = segments
            /\ ret' = NoReturn
            /\ Len(stack') = Len(stack) - 1
            /\ stack'[Len(stack')].at \in {"left_ret", "right_ret"}
            /\ pc' = pc]_vars
    /\ DepthExceeded ~> (pc = "done")

\* the call at depth 11 has returned not-found to its parent at depth 10
C22_Witness ==
    /\ stack # <<>>
    /\ Top.depth = MaxDepth
    /\ Top.at = "left_ret"
    /\ ret = NoReturn
    /\ ((Top.start_ms + Top.end_ms) \div 2) - Top.start_ms >= segment_length

\* C23: the bisection of one half issues at most 11 probes, one per depth
\* level 0..10, so a whole search issues at most 2 + 2 * 11 = 24 probes
C23_ProbeBudget ==
    /\ PhaseCount("first_half") <= MaxDepth + 1
    /\ PhaseCount("second_half") <= MaxDepth + 1
    /\ PhaseCount("strategic") + PhaseCount("first_half")
          + PhaseCount("second_half") <= 2 + 2 * (MaxDepth + 1)

NoCallBeyondDepthLimit == \A k \in 1..Len(stack) : stack[k].depth <= MaxDepth

\* every call ends at a range shorter than a window or probes; a recursive
\* call gets at most half of its parent's range
RangesHalve ==
    [][RecursionStep =>
         2 * (stack'[Len(stack')].end_ms - stack'[Len(stack')].start_ms)
            <= Top.end_ms - Top.start_ms]_vars

\* C30 as stated: for every duration d < 2^12 * windowMs the depth limit of
\* the bisection is never reached
C30_LimitNotReachedBelow4096 ==
    duration_ms < Pow2(MaxDepth + 2) * segment_length => NoCallBeyondDepthLimit

\* C30 amended: for every duration d < 2^12 * windowMs - 1 the depth limit is
\* never reached: every recursive call gets at most half of its parent's
\* range, and every call that returns without a probe does so because its
\* range is shorter than windowMs
C30_LimitNotReachedBelow4095 ==
    /\ [](duration_ms < Pow2(MaxDepth + 2) * segment_length - 1 =>
             NoCallBeyondDepthLimit)
    /\ RangesHalve
    /\ [][(duration_ms < Pow2(MaxDepth + 2) * segment_length - 1
             /\ stack # <<>> /\ Top.at = "call" /\ probes' = probes) =>
                Top.end_ms - Top.start_ms < segment_length]_vars

\* the longest recording below the limit: the probe at depth 10 of its second
\* half found nothing and neither of its sub-ranges is a window long
C30_Witness ==
    /\ duration_ms = Pow2(MaxDepth + 2) * segment_length - 2
    /\ pc = "in_second"
    /\ stack # <<>>
    /\ Top.depth = MaxDepth - 1
    /\ Top.at = "left_ret"
    /\ ret = NoReturn
    /\ probes[Len(probes)].depth = MaxDepth

\* C24: for d >= windowMs the first strategic position is d div 3 when
\* d div 3 <= d - windowMs and otherwise the midpoint (d - windowMs) div 2 of
\* [0, d - windowMs]; the second is 2d div 3 when 2d div 3 <= d - windowMs
\* and otherwise d - windowMs, the last possible window
C24_StrategicFallbacks ==
    (pc = "planned" /\ duration_ms >= segment_length) =>
        /\ strategic_positions[1][1] =
              IF duration_ms \div 3 <= duration_ms - segment_length
              THEN duration_ms \div 3
              ELSE (0 + (duration_ms - segment_length)) \div 2
        /\ strategic_positions[2][1] =
              IF (2 * duration_ms) \div 3 <= duration_ms - segment_length
              THEN (2 * duration_ms) \div 3
              ELSE duration_ms - segment_length

\* the first position is the natural one and the second is the fallback
C24_Witness ==
    /\ pc = "planned"
    /\ duration_ms >= segment_length
    /\ strategic_positions[1][2] = "1/3"
    /\ strategic_positions[2][2] = "end"
    /\ strategic_positions[1][1] = duration_ms \div 3
    /\ strategic_positions[2][1] < (2 * duration_ms) \div 3

\* C25: the k-th probe attempted in a search, strategic or bisection, at any
\* depth, extracted or not, has ordinal index k - 1; no two probes share an
\* index and the counter equals the number of probes attempted
C25_OrdinalIndexes ==
    /\ \A k \in 1..Len(probes) : probes[k].index = k - 1
    /\ \A i, j \in 1..Len(probes) :
          i # j => probes[i].index # probes[j].index
    /\ segment_counter = Len(probes)

\* a search with a probe whose extraction failed followed by bisection
\* probes below the top level
C25_Witness ==
    /\ pc = "done"
    /\ Len(probes) >= 5
    /\ \E i, j \in 1..Len(probes) :
          /\ i < j
          /\ ~probes[i].created
          /\ probes[j].depth >= 1
          /\ probes[j].index = j - 1
    /\ segment_counter = Len(probes)

\* a recognition call is in flight
CallInFlight ==
    /\ segment # None
    /\ \/ pc = "strategic_identify"
       \/ pc \in {"in_first", "in_second"} /\ stack # <<>> /\ Top.at = "identify"

\* C26: after every recognition call, however it ends, the pending alarm is
\* cancelled and the previous SIGALRM handler is restored before the next
\* step, so a deadline is armed only while its own call is in flight and
\* never after the search has returned
C26_AlarmCancelled ==
    /\ []((alarm > 0 \/ sigalrm_handler # PreviousHandler) => CallInFlight)
    /\ [](CallInFlight =>
             alarm = RecognitionTimeoutSeconds /\ sigalrm_handler = "timeout_handler")
    /\ [][outcome' # NoOutcome =>
             alarm' = 0 /\ sigalrm_handler' = PreviousHandler]_vars

\* a call has ended without a match, its alarm was cancelled, and the call of
\* the next probe of the same half is in flight under its own alarm
C26_Witness ==
    /\ CallInFlight
    /\ alarm = RecognitionTimeoutSeconds
    /\ Len(probes) >= 2
    /\ pc \in {"in_first", "in_second"}
    /\ ~probes[Len(probes) - 1].hit
    /\ probes[Len(probes) - 1].created
    /\ probes[Len(probes) - 1].phase = probes[Len(probes)].phase

\* C27: within one search no two probes target the same window: the
\* strategic positions and the bisection probes of both halves are pairwise
\* distinct, so creating a probe's segment never violates the uniqueness of
\* (video, start_time, end_time)
C27_DistinctWindows ==
    \A i, j \in 1..Len(probes) :
        i # j => \/ probes[i].start_ms # probes[j].start_ms
                 \/ probes[i].end_ms # probes[j].end_ms

\* C28: when process_video_optimized returns normally every segment it
\* created has processed = True, accepted or not, so the cleanup that follows
\* deletes no segment of that search
C28_CleanupDeletesNothing ==
    /\ [](pc = "done" => \A r \in segments : r.processed)
    /\ [][(pc = "done" /\ pc' = "cleaned") => segments' = segments]_vars

\* the cleanup ran after a search that accepted a match from bisection and
\* left other segments behind
C28_Witness ==
    /\ pc = "cleaned"
    /\ Cardinality(segments) >= 4
    /\ Len(results) >= 1
    /\ results[Len(results)].position = "second_half"
    /\ \E i \in 1..Len(probes) : probes[i].created /\ ~probes[i].hit

\* C29: whatever max_songs is, a search returns at most 4 results, at most
\* one per strategic position and one per bisected half:
\* len(results) <= min(max_songs, 4)
C29_AtMostFourResults ==
    /\ Len(results) <= (IF max_songs <= 4 THEN max_songs ELSE 4)
    /\ PositionCount("1/3") + PositionCount("middle") <= 1
    /\ PositionCount("2/3") + PositionCount("end") <= 1
    /\ PositionCount("first_half") <= 1
    /\ PositionCount("second_half") <= 1

\* a search allowed five songs returned four, one from each source
C29_Witness ==
    /\ pc = "done"
    /\ max_songs > 4
    /\ Len(results) = 4
    /\ PositionCount("first_half") = 1
    /\ PositionCount("second_half") = 1

=============================================================================
